---- MODULE Spec2Model ----
(***************************************************************************)
(* Model of the Emergency Hub screen, src/app/(tabs)/sos.tsx (SOSScreen).  *)
(*                                                                         *)
(* The screen state is the React state of SOSScreen plus the two shared    *)
(* values.  Every handler of the component is one action.  The hold        *)
(* animation runs on the animation thread: its frames and its completion   *)
(* callback are actions of their own, and what the callback hands to       *)
(* runOnJS is queued (jsQueue) and run later, one call at a time, by the   *)
(* JavaScript thread.  Time is abstracted to animation frames.             *)
(*                                                                         *)
(* A handler is one step: the state it sets is what the next handler       *)
(* reads (the render between two events is not a step of its own), and     *)
(* cancelAnimation takes effect in the handler that calls it.  A release   *)
(* that comes after the completion callback and before the JS thread has   *)
(* run what the callback queued is the interleaving in which the           *)
(* cancellation arrives too late.                                          *)
(***************************************************************************)
EXTENDS Integers, Sequences, FiniteSets, TLC

\* ---------------------------------------------------------------- bounds
MaxPress == 2        \* presses of the SOS button in one run
ProgressSteps == 2   \* animation frames a full hold takes (progress 0..1)

Presses == 1..MaxPress

\* ------------------------------------------------------------- constants
DEFAULT_CONTACTS ==
  << [id |-> "police", name |-> <<"P","o","l","i","c","e">>, phone |-> "100",
      icon |-> "shield.fill", relation |-> "Official"],
     [id |-> "ambulance", name |-> <<"A","m","b">>, phone |-> "102",
      icon |-> "cross.circle.fill", relation |-> "Medical"] >>

\* -------------------------------------------- the device contact directory
\* Contacts.Contact as the screen reads it: id (may be missing, ""), name,
\* phoneNumbers (may be empty).  Names are sequences of characters.
Mom    == [id |-> "c1", name |-> <<"M","o","m">>, phoneNumbers |-> <<"+1555">>]
Dup    == [id |-> "",   name |-> <<"D","u","p">>, phoneNumbers |-> <<"+1555">>]
Zed    == [id |-> "c3", name |-> <<"Z","e","d">>, phoneNumbers |-> <<>>]
Cop    == [id |-> "c4", name |-> <<"C","o","p">>, phoneNumbers |-> <<"100">>]
\* the directory entry c1 after its number was edited on the device
MomNew == [id |-> "c1", name |-> <<"M","o","m">>, phoneNumbers |-> <<"+1666">>]

\* what Contacts.getContactsAsync can return on one call
DirectorySnapshots == { <<>>, <<Mom, Dup, Zed, Cop>>, <<MomNew, Dup>> }
PermissionStatuses == {"granted", "denied"}

\* what Math.random().toString() can return
RandomIds == {"0.1", "0.2"}

\* what the user can type in the search box
Queries == { <<>>, <<"M","O","M">>, <<"x">> }

NoAnimation == [kind |-> "none", press |-> 0]

VARIABLES
  isActivating,          \* useState(false)
  sosActive,             \* useState(false)
  priorityContacts,      \* useState(DEFAULT_CONTACTS)
  isPickerVisible,       \* useState(false)
  isRecordSheetVisible,  \* useState(false)
  deviceContacts,        \* useState([])
  searchQuery,           \* useState('')
  progress,              \* useSharedValue(0), in frames: 0..ProgressSteps
  buttonScale,           \* useSharedValue(1), the spring's target, in percent
  animation,             \* the animation attached to progress
  jsQueue,               \* runOnJS calls not yet run by the JS thread
  pressed,               \* a touch is down on the SOS Pressable
  sosAlerts,             \* 'SOS ACTIVATED' alerts on screen, not yet acknowledged
  press,                 \* number of handlePressIn calls so far
  fired,                 \* history: runs of triggerSOS per press
  completed,             \* history: presses whose hold timer finished
  aborted,               \* history: presses released through the abort branch
  early                  \* history: presses aborted while their timer ran

vars == << isActivating, sosActive, priorityContacts, isPickerVisible,
           isRecordSheetVisible, deviceContacts, searchQuery, progress,
           buttonScale, animation, jsQueue, pressed, sosAlerts, press,
           fired, completed, aborted, early >>

contactVars == << priorityContacts, isPickerVisible, deviceContacts, searchQuery >>
historyVars == << fired, completed, aborted, early >>

Init ==
  /\ isActivating = FALSE
  /\ sosActive = FALSE
  /\ priorityContacts = DEFAULT_CONTACTS
  /\ isPickerVisible = FALSE
  /\ isRecordSheetVisible = FALSE
  /\ deviceContacts = <<>>
  /\ searchQuery = <<>>
  /\ progress = 0
  /\ buttonScale = 100
  /\ animation = NoAnimation
  /\ jsQueue = <<>>
  /\ pressed = FALSE
  /\ sosAlerts = 0
  /\ press = 0
  /\ fired = [p \in Presses |-> 0]
  /\ completed = {}
  /\ aborted = {}
  /\ early = {}

\* ------------------------------------------------------ the SOS button

\* variant: the callback does not look at finished
withTimingCallbackIgnoringFinished(finished, p) ==
  << [fn |-> "triggerSOS", press |-> p],
     [fn |-> "setIsActivating", press |-> p] >>

\* the callback given to withTiming(1, {duration: 2000}, ...), for the press
\* p that started the animation: the calls it hands to runOnJS, in order
withTimingCallback(finished, p) ==
  IF finished
  THEN << [fn |-> "triggerSOS", press |-> p],
          [fn |-> "setIsActivating", press |-> p] >>
  ELSE << >>

\* an animation that is cancelled or replaced gets its callback called with
\* finished = false; the decay animation has no callback
cancelled(anim) ==
  IF anim.kind = "hold" THEN withTimingCallback(FALSE, anim.press) ELSE << >>

\* triggerSOS, run by the JS thread when it reaches the queued call
triggerSOS ==
  /\ jsQueue # <<>>
  /\ Head(jsQueue).fn = "triggerSOS"
  /\ sosActive' = TRUE
  /\ sosAlerts' = sosAlerts + 1
  /\ jsQueue' = Tail(jsQueue)
  /\ fired' = [fired EXCEPT ![Head(jsQueue).press] = @ + 1]
  /\ UNCHANGED << isActivating, isRecordSheetVisible, progress, buttonScale,
                  animation, pressed, press, completed, aborted, early >>
  /\ UNCHANGED contactVars

\* the alert's only button: 'I am Safe Now'
ackSafe ==
  /\ sosAlerts > 0
  /\ sosAlerts' = sosAlerts - 1
  /\ sosActive' = FALSE
  /\ UNCHANGED << isActivating, isRecordSheetVisible, progress, buttonScale,
                  animation, jsQueue, pressed, press >>
  /\ UNCHANGED contactVars
  /\ UNCHANGED historyVars

\* onPressIn of the Pressable; the Pressable takes no new touch while
\* disabled={sosActive}
handlePressIn ==
  /\ ~pressed
  /\ ~sosActive
  /\ press < MaxPress
  /\ pressed' = TRUE
  /\ press' = press + 1
  /\ isActivating' = TRUE
  /\ buttonScale' = 92
  \* withTiming(1, 2000ms, callback): replaces whatever animation progress
  \* had (its callback, if any, gets finished = false) and starts from the
  \* current value of progress
  /\ animation' = [kind |-> "hold", press |-> press + 1]
  /\ jsQueue' = jsQueue \o cancelled(animation)
  /\ UNCHANGED << sosActive, isRecordSheetVisible, progress, sosAlerts >>
  /\ UNCHANGED contactVars
  /\ UNCHANGED historyVars

\* a frame of the hold animation that does not reach 1
holdFrame ==
  /\ animation.kind = "hold"
  /\ progress + 1 < ProgressSteps
  /\ progress' = progress + 1
  /\ UNCHANGED << isActivating, sosActive, isRecordSheetVisible, buttonScale,
                  animation, jsQueue, pressed, sosAlerts, press >>
  /\ UNCHANGED contactVars
  /\ UNCHANGED historyVars

\* the frame that reaches 1: the callback runs with finished = true
holdCallback ==
  /\ animation.kind = "hold"
  /\ progress + 1 >= ProgressSteps
  /\ jsQueue' = jsQueue \o withTimingCallback(TRUE, animation.press)
  /\ progress' = 0
  /\ animation' = NoAnimation
  /\ completed' = completed \cup {animation.press}
  /\ UNCHANGED << isActivating, sosActive, isRecordSheetVisible, buttonScale,
                  pressed, sosAlerts, press, fired, aborted, early >>
  /\ UNCHANGED contactVars

\* runOnJS(setIsActivating)(false), run by the JS thread
setIsActivatingFalse ==
  /\ jsQueue # <<>>
  /\ Head(jsQueue).fn = "setIsActivating"
  /\ isActivating' = FALSE
  /\ jsQueue' = Tail(jsQueue)
  /\ UNCHANGED << sosActive, isRecordSheetVisible, progress, buttonScale,
                  animation, pressed, sosAlerts, press >>
  /\ UNCHANGED contactVars
  /\ UNCHANGED historyVars

\* variant: a release while the SOS is active ends it
handlePressOutEndsSOS ==
  /\ pressed
  /\ pressed' = FALSE
  /\ IF ~sosActive
     THEN /\ isActivating' = FALSE
          /\ jsQueue' = jsQueue \o cancelled(animation)
          /\ animation' = [kind |-> "decay", press |-> 0]
          /\ buttonScale' = 100
          /\ aborted' = aborted \cup {press}
          /\ early' = IF animation = [kind |-> "hold", press |-> press]
                      THEN early \cup {press} ELSE early
          /\ UNCHANGED sosActive
     ELSE /\ sosActive' = FALSE
          /\ UNCHANGED << isActivating, animation, jsQueue, buttonScale,
                          aborted, early >>
  /\ UNCHANGED << isRecordSheetVisible, progress, sosAlerts,
                  press, fired, completed >>
  /\ UNCHANGED contactVars

\* onPressOut of the Pressable
handlePressOut ==
  /\ pressed
  /\ pressed' = FALSE
  /\ IF ~sosActive
     THEN /\ isActivating' = FALSE
          \* cancelAnimation(progress), then withTiming(0, 300ms)
          /\ jsQueue' = jsQueue \o cancelled(animation)
          /\ animation' = [kind |-> "decay", press |-> 0]
          /\ buttonScale' = 100
          /\ aborted' = aborted \cup {press}
          /\ early' = IF animation = [kind |-> "hold", press |-> press]
                      THEN early \cup {press} ELSE early
     ELSE UNCHANGED << isActivating, animation, jsQueue, buttonScale,
                       aborted, early >>
  /\ UNCHANGED << sosActive, isRecordSheetVisible, progress, sosAlerts,
                  press, fired, completed >>
  /\ UNCHANGED contactVars

\* a frame of the 300ms decay back to 0
decayFrame ==
  /\ animation.kind = "decay"
  /\ progress' = IF progress > 0 THEN progress - 1 ELSE 0
  /\ animation' = IF progress' = 0 THEN NoAnimation ELSE animation
  /\ UNCHANGED << isActivating, sosActive, isRecordSheetVisible, buttonScale,
                  jsQueue, pressed, sosAlerts, press >>
  /\ UNCHANGED contactVars
  /\ UNCHANGED historyVars

NextSOS ==
  \/ handlePressIn
  \/ handlePressOut
  \/ holdFrame
  \/ holdCallback
  \/ triggerSOS
  \/ setIsActivatingFalse
  \/ decayFrame
  \/ ackSafe

SpecSOS == Init /\ [][NextSOS]_vars

\* ------------------------------------------------------ priority contacts

\* variant: the comparison keeps the case
LowerCharKeepsCase(ch) == ch

\* String.prototype.toLowerCase on the characters the directory uses
LowerChar(ch) ==
  CASE ch = "M" -> "m" [] ch = "O" -> "o" [] ch = "D" -> "d"
    [] ch = "Z" -> "z" [] ch = "C" -> "c" [] ch = "P" -> "p"
    [] ch = "A" -> "a" [] OTHER -> ch

toLowerCase(str) == [i \in 1..Len(str) |-> LowerChar(str[i])]

\* String.prototype.includes
includes(str, sub) ==
  \E k \in 0..(Len(str) - Len(sub)) : SubSeq(str, k + 1, k + Len(sub)) = sub

nameMatches(c) == includes(toLowerCase(c.name), toLowerCase(searchQuery))

\* deviceContacts.filter(...): the elements that pass, in order
filteredContacts == SelectSeq(deviceContacts, nameMatches)

\* contact.phoneNumbers?.[0]?.number, "" standing for undefined
firstPhoneNumber(contact) ==
  IF Len(contact.phoneNumbers) > 0 THEN contact.phoneNumbers[1] ELSE ""

\* variant: the missing number is not checked
noPhoneNumberNever(phoneNumber) == FALSE

\* !phoneNumber
noPhoneNumber(phoneNumber) == phoneNumber = ""

\* variant: the search compares the wrong field
findByPhoneComparesId(list, phoneNumber) ==
  \E i \in 1..Len(list) : list[i].id = phoneNumber

\* priorityContacts.find(c => c.phone === phoneNumber)
findByPhone(list, phoneNumber) ==
  \E i \in 1..Len(list) : list[i].phone = phoneNumber

\* variant: the new record goes first
withNewContactFirst(list, newContact) == <<newContact>> \o list

\* [...priorityContacts, newContact]
withNewContact(list, newContact) == Append(list, newContact)

\* variant: only one of the two default ids is protected
isDefaultIdPoliceOnly(id) == id = "police"

\* id === 'police' || id === 'ambulance'
isDefaultId(id) == id = "police" \/ id = "ambulance"

\* priorityContacts.filter(c => c.id !== id)
withoutId(list, id) ==
  LET Keep(c) == c.id # id IN SelectSeq(list, Keep)

\* the record addContact builds; rnd is the value of Math.random().toString()
newContactOf(contact, rnd) ==
  [id |-> IF contact.id # "" THEN contact.id ELSE rnd,
   name |-> contact.name,
   phone |-> firstPhoneNumber(contact),
   icon |-> "person.fill",
   relation |-> "Added Contact"]

sosVars == << isActivating, sosActive, progress, buttonScale, animation,
              jsQueue, pressed, sosAlerts, press >>

\* Alert.alert without a button callback and the Haptics calls are outputs
\* of a handler, not state of the screen: a handler that only shows such an
\* alert leaves every variable unchanged.

\* variant: the picker opens on whatever the device returned
openContactPickerWithoutLengthCheck(status, data) ==
  /\ IF status = "granted"
     THEN /\ deviceContacts' = data
          /\ isPickerVisible' = TRUE
     ELSE UNCHANGED << deviceContacts, isPickerVisible >>
  /\ UNCHANGED << priorityContacts, searchQuery, isRecordSheetVisible >>
  /\ UNCHANGED sosVars
  /\ UNCHANGED historyVars

\* 'Manage': both awaits done, with the permission status and the data the
\* device returned; the handler reads no screen state and writes only at its end
openContactPicker(status, data) ==
  /\ IF status = "granted" /\ Len(data) > 0
     THEN /\ deviceContacts' = data
          /\ isPickerVisible' = TRUE
     ELSE UNCHANGED << deviceContacts, isPickerVisible >>
  /\ UNCHANGED << priorityContacts, searchQuery, isRecordSheetVisible >>
  /\ UNCHANGED sosVars
  /\ UNCHANGED historyVars

\* 'Close' and onRequestClose of the picker modal
closePicker ==
  /\ isPickerVisible
  /\ isPickerVisible' = FALSE
  /\ UNCHANGED << priorityContacts, deviceContacts, searchQuery,
                  isRecordSheetVisible >>
  /\ UNCHANGED sosVars
  /\ UNCHANGED historyVars

\* onChangeText of the search box in the picker modal
setSearchQuery(q) ==
  /\ isPickerVisible
  /\ searchQuery' = q
  /\ UNCHANGED << priorityContacts, deviceContacts, isPickerVisible,
                  isRecordSheetVisible >>
  /\ UNCHANGED sosVars
  /\ UNCHANGED historyVars

\* tap on a row of the picker list
addContact(contact, rnd) ==
  /\ isPickerVisible
  /\ \E i \in 1..Len(filteredContacts) : filteredContacts[i] = contact
  /\ IF noPhoneNumber(firstPhoneNumber(contact))
     THEN UNCHANGED << priorityContacts, isPickerVisible >>
     ELSE IF findByPhone(priorityContacts, firstPhoneNumber(contact))
          THEN UNCHANGED << priorityContacts, isPickerVisible >>
          ELSE /\ priorityContacts' =
                    withNewContact(priorityContacts, newContactOf(contact, rnd))
               /\ isPickerVisible' = FALSE
  /\ UNCHANGED << deviceContacts, searchQuery, isRecordSheetVisible >>
  /\ UNCHANGED sosVars
  /\ UNCHANGED historyVars

\* long press on a contact card
removeContact(id) ==
  /\ \E i \in 1..Len(priorityContacts) : priorityContacts[i].id = id
  /\ IF isDefaultId(id)
     THEN UNCHANGED priorityContacts
     ELSE priorityContacts' = withoutId(priorityContacts, id)
  /\ UNCHANGED << isPickerVisible, deviceContacts, searchQuery,
                  isRecordSheetVisible >>
  /\ UNCHANGED sosVars
  /\ UNCHANGED historyVars

\* ------------------------------------------------------ the record sheet

\* the 'Record' action card
openRecordSheet ==
  /\ ~isRecordSheetVisible
  /\ isRecordSheetVisible' = TRUE
  /\ UNCHANGED contactVars
  /\ UNCHANGED sosVars
  /\ UNCHANGED historyVars

\* overlay press, 'Cancel' and onRequestClose of the record sheet
closeRecordSheet ==
  /\ isRecordSheetVisible
  /\ isRecordSheetVisible' = FALSE
  /\ UNCHANGED contactVars
  /\ UNCHANGED sosVars
  /\ UNCHANGED historyVars

\* 'Audio Only' and 'Video & Audio'
handleRecordAction(type) ==
  /\ isRecordSheetVisible
  /\ isRecordSheetVisible' = FALSE
  /\ UNCHANGED contactVars
  /\ UNCHANGED sosVars
  /\ UNCHANGED historyVars

NextContacts ==
  \/ \E status \in PermissionStatuses, data \in DirectorySnapshots :
        openContactPicker(status, data)
  \/ closePicker
  \/ \E q \in Queries : setSearchQuery(q)
  \/ \E i \in 1..Len(deviceContacts), rnd \in RandomIds :
        addContact(deviceContacts[i], rnd)
  \/ \E i \in 1..Len(priorityContacts) : removeContact(priorityContacts[i].id)

NextRecord ==
  \/ openRecordSheet
  \/ closeRecordSheet
  \/ \E type \in {"audio", "video"} : handleRecordAction(type)

Next == NextSOS \/ NextContacts \/ NextRecord

SpecContacts == Init /\ [][NextContacts]_vars

Spec == Init /\ [][Next]_vars

\* ================================================================ claims

pendingTrigger(p) ==
  \E i \in 1..Len(jsQueue) : jsQueue[i] = [fn |-> "triggerSOS", press |-> p]

\* the session is at rest: no touch, no animation, nothing queued
atRest == ~pressed /\ animation = NoAnimation /\ jsQueue = <<>>

\* C1: a press released before its hold timer completes never invokes
\* triggerSOS, and if it is the last press, once the decay is over and
\* nothing is queued, progress is 0 and the session is Idle.
C1_EarlyReleaseReturnsToIdle ==
  /\ \A p \in early : fired[p] = 0 /\ ~pendingTrigger(p)
  /\ (press \in early /\ atRest) =>
        (progress = 0 /\ ~isActivating /\ ~sosActive)

\* C2: triggerSOS runs at most once for any press, it runs only for a press
\* whose hold timer finished, and once the queued call of such a press has
\* been run it has run exactly once.
C2_FiresExactlyOnce ==
  \A p \in Presses :
    /\ fired[p] <= 1
    /\ fired[p] > 0 => p \in completed
    /\ (p \in completed /\ ~pendingTrigger(p)) => fired[p] = 1

\* a full hold whose triggerSOS has run
C2_Witness ==
  \E p \in Presses : p \in completed /\ ~pendingTrigger(p) /\ fired[p] = 1

\* C3: once handlePressOut has taken its abort branch for a press, no
\* triggerSOS of that press runs afterwards.
C3_NoTriggerAfterAbort ==
  [][\A p \in Presses : p \in aborted => fired'[p] = fired[p]]_vars

\* C4: sosActive goes from true to false only in a step of the
\* 'I am Safe Now' acknowledgment.
C4_OnlyAckDeactivates ==
  [][(sosActive /\ ~sosActive') => ackSafe]_vars

\* an activation that has been acknowledged
C4_Witness ==
  ~sosActive /\ sosAlerts = 0 /\ \E p \in Presses : fired[p] = 1

\* C5: isActivating and sosActive are never both true, no press can start
\* while sosActive is true, and no second activation happens before the
\* first is acknowledged.
C5_TriState ==
  /\ ~(isActivating /\ sosActive)
  /\ sosActive => ~ENABLED handlePressIn
  /\ sosAlerts <= 1

\* every contact the device directory can hand to addContact
DirectoryContacts ==
  UNION { { snap[i] : i \in 1..Len(snap) } : snap \in DirectorySnapshots }

\* the ids a card of the list can carry
ListIds == { priorityContacts[i].id : i \in 1..Len(priorityContacts) }

hasEntry(list, id, phone) ==
  \E i \in 1..Len(list) : list[i].id = id /\ list[i].phone = phone

\* C6: removeContact('police') and removeContact('ambulance') leave the
\* list unchanged, and the list always contains the police (100) and the
\* ambulance (102) entries.
C6_DefaultsPermanent ==
  /\ [](hasEntry(priorityContacts, "police", "100")
        /\ hasEntry(priorityContacts, "ambulance", "102"))
  /\ [][\A id \in {"police", "ambulance"} :
          removeContact(id) => priorityContacts' = priorityContacts]_vars

\* a list that went through adds and still has both defaults
C6_Witness ==
  /\ Len(priorityContacts) = 4
  /\ hasEntry(priorityContacts, "police", "100")
  /\ hasEntry(priorityContacts, "ambulance", "102")

\* C7: no two entries of priorityContacts have the same phone.
C7_PhonesUnique ==
  \A i, j \in 1..Len(priorityContacts) :
    priorityContacts[i].phone = priorityContacts[j].phone => i = j

\* two added contacts in the list, and a contact with a phone already in
\* the list offered by the picker
C7_Witness ==
  /\ Len(priorityContacts) = 4
  /\ isPickerVisible
  /\ \E i \in 1..Len(filteredContacts) :
        Len(filteredContacts[i].phoneNumbers) > 0
        /\ \E j \in 1..Len(priorityContacts) :
              priorityContacts[j].phone = filteredContacts[i].phoneNumbers[1]

\* C8: addContact on a contact without a first phone number, or whose first
\* phone number is the phone of an entry of the list, leaves the list as it was.
C8_RejectedAddIsNoOp ==
  [][\A c \in DirectoryContacts, rnd \in RandomIds :
       ( /\ addContact(c, rnd)
         /\ \/ c.phoneNumbers = <<>>
            \/ \E i \in 1..Len(priorityContacts) :
                  priorityContacts[i].phone = c.phoneNumbers[1] )
       => priorityContacts' = priorityContacts]_vars

\* the picker offers both a contact without number and one with the number
\* of a default entry, after a contact has been added
C8_Witness ==
  /\ isPickerVisible
  /\ Len(priorityContacts) = 3
  /\ \E i \in 1..Len(filteredContacts) : filteredContacts[i].phoneNumbers = <<>>
  /\ \E i \in 1..Len(filteredContacts) : filteredContacts[i].phoneNumbers = <<"100">>

\* C9: removeContact on a non-default id present in the list makes the list
\* exactly one entry shorter.
C9_RemoveTakesOne ==
  [][\A id \in ListIds :
       (removeContact(id) /\ id \notin {"police", "ambulance"})
       => Len(priorityContacts') = Len(priorityContacts) - 1]_vars

MomRecord ==
  [id |-> "c1", name |-> <<"M","o","m">>, phone |-> "+1555",
   icon |-> "person.fill", relation |-> "Added Contact"]

\* C10: an accepted add puts exactly one record, with the contact's name and
\* first phone number, at the end of the list and keeps the entries before
\* it; from the default list adding Mom (+1555) gives [police, ambulance,
\* Mom], and adding Dup (+1555) after that leaves those three entries.
C10_AddAppendsOne ==
  [][\A c \in DirectoryContacts, rnd \in RandomIds :
       addContact(c, rnd) =>
         /\ priorityContacts' # priorityContacts =>
              /\ Len(priorityContacts') = Len(priorityContacts) + 1
              /\ SubSeq(priorityContacts', 1, Len(priorityContacts)) = priorityContacts
              /\ priorityContacts'[Len(priorityContacts')].name = c.name
              /\ priorityContacts'[Len(priorityContacts')].phone = c.phoneNumbers[1]
         /\ (c = Mom /\ priorityContacts = DEFAULT_CONTACTS) =>
              priorityContacts' = DEFAULT_CONTACTS \o <<MomRecord>>
         /\ (c = Dup /\ priorityContacts = DEFAULT_CONTACTS \o <<MomRecord>>) =>
              priorityContacts' = DEFAULT_CONTACTS \o <<MomRecord>>]_vars

\* Mom has been added to the default list and the picker offers Dup
C10_Witness ==
  /\ priorityContacts = DEFAULT_CONTACTS \o <<MomRecord>>
  /\ isPickerVisible
  /\ \E i \in 1..Len(filteredContacts) : filteredContacts[i] = Dup

\* upper-case letters of the directory and the search box, with their
\* lower-case forms
CasePairs ==
  { <<"M","m">>, <<"O","o">>, <<"D","d">>, <<"Z","z">>, <<"C","c">>,
    <<"P","p">>, <<"A","a">> }

sameLetter(a, b) == a = b \/ <<a, b>> \in CasePairs \/ <<b, a>> \in CasePairs

\* the name contains the query, letter case apart
containsIgnoringCase(name, query) ==
  \E k \in 0..(Len(name) - Len(query)) :
    \A j \in 1..Len(query) : sameLetter(name[k + j], query[j])

\* positions of deviceContacts whose name contains the search query
matchingPositions ==
  { i \in 1..Len(deviceContacts) :
      containsIgnoringCase(deviceContacts[i].name, searchQuery) }

\* the n-th smallest matching position
nthMatch(n) ==
  CHOOSE i \in matchingPositions :
    Cardinality({ m \in matchingPositions : m <= i }) = n

\* C11: filteredContacts is exactly the device contacts whose name contains
\* the search query, letter case apart, in the order of deviceContacts: the
\* empty query gives all of deviceContacts, the query 'x' (in no name) gives
\* none, and 'MOM' gives the contacts named 'Mom'.
C11_FilterIsCaseInsensitiveSubstring ==
  /\ Len(filteredContacts) = Cardinality(matchingPositions)
  /\ \A n \in 1..Len(filteredContacts) :
        filteredContacts[n] = deviceContacts[nthMatch(n)]
  /\ searchQuery = <<>> => filteredContacts = deviceContacts
  /\ searchQuery = <<"x">> => filteredContacts = <<>>
  /\ searchQuery = <<"M","O","M">> =>
        /\ \A n \in 1..Len(filteredContacts) :
              filteredContacts[n].name = <<"M","o","m">>
        /\ \A i \in 1..Len(deviceContacts) :
              deviceContacts[i].name = <<"M","o","m">> =>
                 \E n \in 1..Len(filteredContacts) :
                    filteredContacts[n] = deviceContacts[i]

\* the picker shows four device contacts and the query 'MOM' leaves 'Mom'
C11_Witness ==
  /\ isPickerVisible
  /\ Len(deviceContacts) = 4
  /\ searchQuery = <<"M","O","M">>
  /\ filteredContacts = <<Mom>>

\* C12: openContactPicker with the permission denied or with no contact
\* returned leaves isPickerVisible and deviceContacts as they were, it opens
\* the picker only with the permission granted and at least one contact, and
\* whenever the picker is visible deviceContacts is not empty.
C12_PickerOpensOnlyWithContacts ==
  /\ [](isPickerVisible => Len(deviceContacts) > 0)
  /\ [][\A status \in PermissionStatuses, data \in DirectorySnapshots :
          openContactPicker(status, data) =>
            /\ (status # "granted" \/ data = <<>>) =>
                  /\ isPickerVisible' = isPickerVisible
                  /\ deviceContacts' = deviceContacts
            /\ (~isPickerVisible /\ isPickerVisible') =>
                  (status = "granted" /\ data # <<>> /\ deviceContacts' = data)]_vars

\* the picker is open on the contacts the device returned
C12_Witness ==
  /\ isPickerVisible
  /\ deviceContacts \in DirectorySnapshots
  /\ Len(deviceContacts) > 0

\* C13: whenever handlePressIn runs, progress is 0 at the start of the
\* advance toward 1, also when the press comes during the decay that
\* follows an aborted hold.
C13_HoldStartsFromZero ==
  [][handlePressIn => (progress = 0 /\ progress' = 0)]_vars

====
